---- MODULE Spec2Model ----
(***************************************************************************)
(* Turnstil: event registration and QR check-in.                           *)
(*                                                                         *)
(* The store (events, staff assignment, tickets, scan log) is shared by    *)
(* concurrent HTTP requests.  settings.py sets no ATOMIC_REQUESTS and no   *)
(* view opens transaction.atomic, so every ORM call of a view is its own   *)
(* autocommitted statement: a request is a process whose steps are its ORM *)
(* calls, and the steps of different requests interleave freely.  The      *)
(* arrival of a request is part of its first ORM call.                     *)
(***************************************************************************)
EXTENDS Integers, Sequences, FiniteSets, TLC

\* ------------------------------------------------------------------ bounds

\* Number of HTTP requests (check-in, registration) the model lets begin.
MaxCalls == 2

\* Event.capacity is drawn from 0..MaxCapacity (0 = unlimited).
MaxCapacity == 1

\* start_time and end_time of a created or edited event are drawn from
\* 1..MaxTime.
MaxTime == 2

\* ------------------------------------------------------------ fixed data

\* Accounts, as management/commands/seed_demo.py creates them.
Users == {"admin", "organizer", "staff", "alice", "bob"}

\* User.role
Role(u) ==
    CASE u = "admin" -> "admin"
      [] u = "organizer" -> "organizer"
      [] u = "staff" -> "staff"
      [] OTHER -> "attendee"

\* Person rows: one per User (OneToOneField); a person's UUID is written as
\* the owner's user name.  The attendees are the persons scanned at the door
\* and the users who register.
Attendees == {"alice", "bob"}

\* A well-formed UUID that is the id of no Person.
UnknownToken == "unknown_person"

\* person_uuid values a scanner submits.
Tokens == Attendees \cup {UnknownToken}

\* The one Event row, and a well-formed UUID that is the id of no Event.
TheEvent == "e1"
UnknownEvent == "unknown_event"
EventIds == {TheEvent, UnknownEvent}

\* request.user of a check-in call: a staff account assigned to the event
\* and an attendee with no assignment.
Scanners == {"staff", "alice"}

Calls == 1..MaxCalls

Times == 1..MaxTime

\* The id of the event an organizer creates.
NewEvent == "e2"

\* Ticket.Status
Status == {"issued", "checked_in", "canceled", "expired"}

\* Absent values (Python None / a lookup that found nothing).
NoTicket ==
    [id |-> <<"none", "none", 0>>, person |-> "none", event |-> "none",
     status |-> "none", issued_at |-> 0, checked_in_at |-> 0]

NoEvent ==
    [id |-> "none", capacity |-> 0, allow_walkins |-> FALSE, created_by |-> "none",
     start_time |-> 0, end_time |-> 0]

\* The contact fields of a Person that visibility gates.
ContactFields == {"email", "organization", "phone", "links"}

\* No response yet.
NoReply ==
    [kind |-> "none", actor |-> "none", target |-> "none", status |-> 0, data |-> <<>>]

\* A request that has not arrived.  token/event_id/actor are the request's
\* inputs; person, ev, ticket the objects the view holds; outcome and fault
\* how it ended; authorized, nlogs, created, checked record what it did
\* (passed the authorization check, _log_scan calls, inserted a ticket, ran
\* Ticket.check_in).
IdleReq ==
    [pc |-> "idle", kind |-> "none", token |-> "none", event_id |-> "none",
     actor |-> "none", person |-> "none", ev |-> NoEvent, ticket |-> NoTicket,
     outcome |-> "none", fault |-> "none",
     authorized |-> FALSE, nlogs |-> 0, created |-> FALSE, checked |-> FALSE]

VARIABLES
    events,       \* set of Event rows
    event_staff,  \* Event.staff (many-to-many): set of <<event id, user>>
    tickets,      \* set of Ticket rows
    scanlogs,     \* set of ScanLog rows
    now,          \* timezone.now(), as a counter
    req,          \* per request: position, arguments, local objects, response
    persons,      \* Person rows, by the owning user
    session,      \* request.session['active_event_uuid'], by user
    reply         \* the last response of a person, event or scanner page view

vars == <<events, event_staff, tickets, scanlogs, now, req, persons, session, reply>>

\* ------------------------------------------------------------- model code

\* registration_count without the exclusion: canceled tickets are counted
\* too.
registration_count_all(e) ==
    Cardinality({t \in tickets : t.event = e})

\* Event.registration_count: tickets.exclude(status=CANCELED).count()
registration_count(e) ==
    Cardinality({t \in tickets : t.event = e /\ t.status # "canceled"})

\* is_full with the comparison off by one: an event is full only once it
\* holds more tickets than its capacity.
is_full_above_capacity(ev) ==
    IF ev.capacity = 0 THEN FALSE ELSE registration_count(ev.id) > ev.capacity

\* Event.is_full, on a loaded Event instance (capacity is the instance's
\* field, the count is a fresh query).
is_full(ev) ==
    IF ev.capacity = 0 THEN FALSE ELSE registration_count(ev.id) >= ev.capacity

\* Authorization by role: every account of role staff or organizer may scan
\* for every event.
is_authorized_by_role(user, ev) ==
    \/ Role(user) \in {"admin", "organizer", "staff"}
    \/ ev.created_by = user
    \/ <<ev.id, user>> \in event_staff

\* The authorization expression of CheckInView.post.
is_authorized(user, ev) ==
    \/ Role(user) = "admin"
    \/ ev.created_by = user
    \/ <<ev.id, user>> \in event_staff

\* The ticket table without its unique constraint: no insert is rejected.
unique_together_dropped(p, e) == FALSE

\* Ticket.Meta.unique_together = ['person', 'event']: whether inserting a
\* row for the pair violates the storage constraint.
unique_together(p, e) ==
    \E t \in tickets : t.person = p /\ t.event = e

\* A foreign key to Event (Ticket.event, ScanLog.event) that refers to no
\* row: the insert is rejected with IntegrityError.  A null reference is
\* allowed where the column is nullable.
EventRowMissing(e) ==
    e # "none" /\ ~\E ev \in events : ev.id = e

\* Ticket.id default uuid.uuid4: an identifier no row has.
FreshTicketId(p, e) ==
    <<p, e, 1 + Cardinality({t \in tickets : t.person = p /\ t.event = e})>>

\* The row Ticket.objects.create(person, event, status=ISSUED) inserts.
NewTicket(p, e) ==
    [id |-> FreshTicketId(p, e), person |-> p, event |-> e, status |-> "issued",
     issued_at |-> now, checked_in_at |-> 0]

\* Ticket.objects.get(person=..., event=...) / the get of get_or_create.
FindTicket(p, e) ==
    IF \E t \in tickets : t.person = p /\ t.event = e
    THEN CHOOSE t \in tickets : t.person = p /\ t.event = e
    ELSE NoTicket

\* The ScanLog result, metadata reason and HTTP status of each outcome of
\* CheckInView.post.
LogResult(o) ==
    CASE o = "Success" -> "success"
      [] o = "AlreadyCheckedIn" -> "duplicate"
      [] o = "NotRegistered" -> "not_registered"
      [] o = "EventFull" -> "not_registered"
      [] o = "TicketCanceled" -> "invalid"
      [] o = "PersonNotFound" -> "invalid"
      [] o = "EventNotFound" -> "invalid"
      [] OTHER -> "none"

LogReason(o) ==
    CASE o = "EventFull" -> "walkin_capacity_full"
      [] o = "TicketCanceled" -> "ticket_canceled"
      [] o = "EventNotFound" -> "event_not_found"
      [] OTHER -> "none"

\* The 'code' of the response body (a success response carries none).
ResponseCode(o) ==
    CASE o = "PersonNotFound" -> "INVALID"
      [] o = "EventNotFound" -> "INVALID"
      [] o = "Unauthorized" -> "UNAUTHORIZED"
      [] o = "EventFull" -> "EVENT_FULL"
      [] o = "NotRegistered" -> "NOT_REGISTERED"
      [] o = "AlreadyCheckedIn" -> "DUPLICATE_CHECKIN"
      [] o = "TicketCanceled" -> "TICKET_CANCELED"
      [] OTHER -> "none"

\* The HTTP status of the response.
HttpStatus(o) ==
    CASE o \in {"PersonNotFound", "EventNotFound", "NotRegistered"} -> 404
      [] o = "Unauthorized" -> 403
      [] o \in {"EventFull", "AlreadyCheckedIn", "TicketCanceled"} -> 409
      [] OTHER -> 200

\* _log_scan called without the metadata of the duplicate branch: the row
\* of a duplicate scan does not carry the ticket's checked_in_at.
ScanLogEntry_without_checked_in_at(c, r, o) ==
    [id |-> <<c, r.nlogs + 1>>,
     event |-> IF o \in {"PersonNotFound", "EventNotFound"} THEN "none" ELSE r.ev.id,
     person |-> r.person,
     actor |-> r.actor,
     result |-> LogResult(o),
     scanned_value |->
         CASE o = "PersonNotFound" -> r.token
           [] o = "EventNotFound" -> r.event_id
           [] OTHER -> "",
     reason |-> LogReason(o),
     checked_in_at |-> 0]

\* _log_scan called without the caller on the failure branches: only a
\* success row names its actor.
ScanLogEntry_actor_dropped(c, r, o) ==
    [id |-> <<c, r.nlogs + 1>>,
     event |-> IF o \in {"PersonNotFound", "EventNotFound"} THEN "none" ELSE r.ev.id,
     person |-> r.person,
     actor |-> IF o = "Success" THEN r.actor ELSE "none",
     result |-> LogResult(o),
     scanned_value |->
         CASE o = "PersonNotFound" -> r.token
           [] o = "EventNotFound" -> r.event_id
           [] OTHER -> "",
     reason |-> LogReason(o),
     checked_in_at |-> IF o = "AlreadyCheckedIn" THEN r.ticket.checked_in_at ELSE 0]

\* _log_scan called with person=None on the event-not-found branch.
ScanLogEntry_person_dropped(c, r, o) ==
    [id |-> <<c, r.nlogs + 1>>,
     event |-> IF o \in {"PersonNotFound", "EventNotFound"} THEN "none" ELSE r.ev.id,
     person |-> IF o = "EventNotFound" THEN "none" ELSE r.person,
     actor |-> r.actor,
     result |-> LogResult(o),
     scanned_value |->
         CASE o = "PersonNotFound" -> r.token
           [] o = "EventNotFound" -> r.event_id
           [] OTHER -> "",
     reason |-> LogReason(o),
     checked_in_at |-> IF o = "AlreadyCheckedIn" THEN r.ticket.checked_in_at ELSE 0]

\* CheckInView._log_scan as called on the branch of outcome o by request c
\* (local state r): event is stored only when an Event instance is passed.
\* The row id (BigAutoField) is written as the request and the number of the
\* call within it.
ScanLogEntry(c, r, o) ==
    [id |-> <<c, r.nlogs + 1>>,
     event |-> IF o \in {"PersonNotFound", "EventNotFound"} THEN "none" ELSE r.ev.id,
     person |-> r.person,
     actor |-> r.actor,
     result |-> LogResult(o),
     scanned_value |->
         CASE o = "PersonNotFound" -> r.token
           [] o = "EventNotFound" -> r.event_id
           [] OTHER -> "",
     reason |-> LogReason(o),
     checked_in_at |-> IF o = "AlreadyCheckedIn" THEN r.ticket.checked_in_at ELSE 0]

\* The status checks without the duplicate check: a checked-in ticket is
\* checked in again.
StatusBranch_no_duplicate_check(t) ==
    CASE t.status = "canceled" -> "TicketCanceled"
      [] OTHER -> "Success"

\* The branch CheckInView.post takes on the Ticket instance it holds:
\* duplicate, canceled, or (anything else) check the person in.
StatusBranch(t) ==
    CASE t.status = "checked_in" -> "AlreadyCheckedIn"
      [] t.status = "canceled" -> "TicketCanceled"
      [] OTHER -> "Success"

\* ------------------------------------------------------------------- Init

\* A ticket seed_demo registers (Ticket.objects.get_or_create, status issued).
SeedTicket(p) ==
    [id |-> <<p, TheEvent, 1>>, person |-> p, event |-> TheEvent,
     status |-> "issued", issued_at |-> 0, checked_in_at |-> 0]

\* A Person row seed_demo creates: name, email and organization given, no
\* phone and no links, and email, organization and links marked visible.
SeedPerson(u) ==
    [id |-> u, name |-> "name", email |-> "mail", organization |-> "org",
     phone |-> "", links |-> "",
     visibility |-> {"email", "organization", "links"}]

\* The state after seed_demo: one event created by the organizer with the
\* organizer and the staff account assigned (it starts in two hours and ends
\* in five), issued tickets for some of the attendees (within the event's
\* capacity), the attendees' Person rows, an empty scan log, no request in
\* flight, no event selected in any session.
Init ==
    /\ \E cap \in 0..MaxCapacity, w \in BOOLEAN :
          events = {[id |-> TheEvent, capacity |-> cap, allow_walkins |-> w,
                     created_by |-> "organizer", start_time |-> 2, end_time |-> 5]}
    /\ persons = [u \in Attendees |-> SeedPerson(u)]
    /\ session = [u \in Users |-> "none"]
    /\ reply = NoReply
    /\ event_staff = {<<TheEvent, "organizer">>, <<TheEvent, "staff">>}
    /\ \E S \in SUBSET Attendees :
          /\ tickets = {SeedTicket(p) : p \in S}
          /\ \A ev \in events : ev.capacity = 0 \/ Cardinality(S) <= ev.capacity
    /\ scanlogs = {}
    /\ now = 1
    /\ req = [c \in Calls |-> IdleReq]

\* ---------------------------------------------------------------- helpers

\* Requests arrive in the order of their numbers.
MayBegin(c) ==
    /\ req[c].pc = "idle"
    /\ IF c = 1 THEN TRUE ELSE req[c - 1].pc # "idle"

Ended(c) == req[c].pc \in {"done", "fault"}

\* The request returns its response.
Return(r, o) ==
    [r EXCEPT !.pc = "done", !.outcome = o]

\* An exception no handler catches: Django answers 500.
Raise(r, e) ==
    [r EXCEPT !.pc = "fault", !.fault = e]

\* ------------------------------------------------- CheckInView.post steps

\* The person lookup answering an unknown token without _log_scan.
CheckInPerson_unknown_unlogged(c, toks, eids, actors) ==
    /\ MayBegin(c)
    /\ \E tok \in toks, eid \in eids, a \in actors :
          LET r == [IdleReq EXCEPT !.kind = "checkin", !.token = tok,
                                   !.event_id = eid, !.actor = a]
          IN req' = [req EXCEPT ![c] =
                       IF tok \in Users
                       THEN [r EXCEPT !.pc = "event", !.person = tok]
                       ELSE Return(r, "PersonNotFound")]
    /\ UNCHANGED <<events, event_staff, tickets, scanlogs, now, persons, session, reply>>

\* The view with the event resolved before the person: an unknown event id
\* is answered EventNotFound whatever the person token is.
CheckInPerson_event_first(c, toks, eids, actors) ==
    /\ MayBegin(c)
    /\ \E tok \in toks, eid \in eids, a \in actors :
          LET r == [IdleReq EXCEPT !.kind = "checkin", !.token = tok,
                                   !.event_id = eid, !.actor = a]
          IN req' = [req EXCEPT ![c] =
                       IF ~\E ev \in events : ev.id = eid
                       THEN [r EXCEPT !.pc = "log", !.outcome = "EventNotFound",
                                      !.person = IF tok \in Users THEN tok ELSE "none"]
                       ELSE IF tok \in Users
                            THEN [r EXCEPT !.pc = "event", !.person = tok]
                            ELSE [r EXCEPT !.pc = "log", !.outcome = "PersonNotFound"]]
    /\ UNCHANGED <<events, event_staff, tickets, scanlogs, now, persons, session, reply>>

\* POST /checkin arrives with a valid body (CheckInSerializer) and the view
\* runs Person.objects.get(id=person_uuid).  toks, eids, actors: the inputs
\* the requests are drawn from.
CheckInPerson(c, toks, eids, actors) ==
    /\ MayBegin(c)
    /\ \E tok \in toks, eid \in eids, a \in actors :
          LET r == [IdleReq EXCEPT !.kind = "checkin", !.token = tok,
                                   !.event_id = eid, !.actor = a]
          IN req' = [req EXCEPT ![c] =
                       IF tok \in Users
                       THEN [r EXCEPT !.pc = "event", !.person = tok]
                       ELSE [r EXCEPT !.pc = "log", !.outcome = "PersonNotFound"]]
    /\ UNCHANGED <<events, event_staff, tickets, scanlogs, now, persons, session, reply>>

\* Event.is_active: start_time <= timezone.now() <= end_time.  No view
\* reads it.
is_active(ev) == ev.start_time <= now /\ now <= ev.end_time

\* The event lookup followed by a test of the time window: an event that
\* is not active is refused.
CheckInEvent_active_only(c) ==
    LET r == req[c] IN
    /\ r.kind = "checkin" /\ r.pc = "event"
    /\ req' = [req EXCEPT ![c] =
                 IF \E ev \in events : ev.id = r.event_id
                 THEN IF is_active(CHOOSE ev \in events : ev.id = r.event_id)
                      THEN [r EXCEPT !.pc = "auth",
                                     !.ev = CHOOSE ev \in events : ev.id = r.event_id]
                      ELSE [r EXCEPT !.pc = "log", !.outcome = "EventInactive",
                                     !.ev = CHOOSE ev \in events : ev.id = r.event_id]
                 ELSE [r EXCEPT !.pc = "log", !.outcome = "EventNotFound"]]
    /\ UNCHANGED <<events, event_staff, tickets, scanlogs, now, persons, session, reply>>

\* Event.objects.get(id=event_uuid)
CheckInEvent(c) ==
    LET r == req[c] IN
    /\ r.kind = "checkin" /\ r.pc = "event"
    /\ req' = [req EXCEPT ![c] =
                 IF \E ev \in events : ev.id = r.event_id
                 THEN [r EXCEPT !.pc = "auth",
                                !.ev = CHOOSE ev \in events : ev.id = r.event_id]
                 ELSE [r EXCEPT !.pc = "log", !.outcome = "EventNotFound"]]
    /\ UNCHANGED <<events, event_staff, tickets, scanlogs, now, persons, session, reply>>

\* The authorization branch with a refusal that tells whether the event
\* takes walk-ins.
AuthBranch_reveals_walkins(r, ok) ==
    IF ok
    THEN [r EXCEPT !.pc = "ticket", !.authorized = TRUE]
    ELSE IF r.ev.allow_walkins
         THEN Return(r, "Unauthorized")
         ELSE Return(r, "NotRegistered")

\* The authorization branch with the refusal audited like every other
\* failure: _log_scan runs before the 403.
AuthBranch_logged(r, ok) ==
    IF ok
    THEN [r EXCEPT !.pc = "ticket", !.authorized = TRUE]
    ELSE [r EXCEPT !.pc = "log", !.outcome = "Unauthorized"]

\* What the view does once is_authorized is computed: go on to the ticket
\* lookup, or answer 403 with no _log_scan call.
AuthBranch(r, ok) ==
    IF ok
    THEN [r EXCEPT !.pc = "ticket", !.authorized = TRUE]
    ELSE Return(r, "Unauthorized")

\* The staff authorization check.
CheckInAuth(c) ==
    LET r == req[c] IN
    /\ r.kind = "checkin" /\ r.pc = "auth"
    /\ req' = [req EXCEPT ![c] = AuthBranch(r, is_authorized(r.actor, r.ev))]
    /\ UNCHANGED <<events, event_staff, tickets, scanlogs, now, persons, session, reply>>

\* The ticket lookup with the walk-in branch taken whatever the event's
\* allow_walkins says.
CheckInTicket_walkins_always(c) ==
    LET r == req[c]
        t == FindTicket(r.person, r.ev.id)
    IN
    /\ r.kind = "checkin" /\ r.pc = "ticket"
    /\ req' = [req EXCEPT ![c] =
                 IF t # NoTicket
                 THEN IF StatusBranch(t) = "Success"
                      THEN [r EXCEPT !.pc = "checkin", !.ticket = t]
                      ELSE [r EXCEPT !.pc = "log", !.ticket = t,
                                     !.outcome = StatusBranch(t)]
                 ELSE [r EXCEPT !.pc = "full"]]
    /\ UNCHANGED <<events, event_staff, tickets, scanlogs, now, persons, session, reply>>

\* Ticket.objects.get(person=person, event=event) and the local branching
\* that follows it (allow_walkins is the loaded instance's field).
CheckInTicket(c) ==
    LET r == req[c]
        t == FindTicket(r.person, r.ev.id)
    IN
    /\ r.kind = "checkin" /\ r.pc = "ticket"
    /\ req' = [req EXCEPT ![c] =
                 IF t # NoTicket
                 THEN IF StatusBranch(t) = "Success"
                      THEN [r EXCEPT !.pc = "checkin", !.ticket = t]
                      ELSE [r EXCEPT !.pc = "log", !.ticket = t,
                                     !.outcome = StatusBranch(t)]
                 ELSE IF r.ev.allow_walkins
                      THEN [r EXCEPT !.pc = "full"]
                      ELSE [r EXCEPT !.pc = "log", !.outcome = "NotRegistered"]]
    /\ UNCHANGED <<events, event_staff, tickets, scanlogs, now, persons, session, reply>>

\* event.is_full on the walk-in branch
CheckInFull(c) ==
    LET r == req[c] IN
    /\ r.kind = "checkin" /\ r.pc = "full"
    /\ req' = [req EXCEPT ![c] =
                 IF is_full(r.ev)
                 THEN [r EXCEPT !.pc = "log", !.outcome = "EventFull"]
                 ELSE [r EXCEPT !.pc = "create"]]
    /\ UNCHANGED <<events, event_staff, tickets, scanlogs, now, persons, session, reply>>

\* Ticket.objects.create(person, event, status=ISSUED) on the walk-in
\* branch; the IntegrityError of the unique constraint is not caught.  The
\* new instance has status issued, so the status checks fall through to
\* check_in.
CheckInCreate(c) ==
    LET r == req[c]
        t == NewTicket(r.person, r.ev.id)
    IN
    /\ r.kind = "checkin" /\ r.pc = "create"
    /\ IF unique_together(r.person, r.ev.id) \/ EventRowMissing(r.ev.id)
       THEN /\ req' = [req EXCEPT ![c] = Raise(r, "IntegrityError")]
            /\ UNCHANGED tickets
       ELSE /\ tickets' = tickets \cup {t}
            /\ req' = [req EXCEPT ![c] =
                         [r EXCEPT !.pc = "checkin", !.ticket = t, !.created = TRUE]]
    /\ UNCHANGED <<events, event_staff, scanlogs, now, persons, session, reply>>

\* check_in saving the status alone: checked_in_at is left as it was.
check_in_status_only(c) ==
    LET r == req[c] IN
    /\ r.kind = "checkin" /\ r.pc = "checkin"
    /\ IF \E t \in tickets : t.id = r.ticket.id
       THEN /\ tickets' = {IF t.id = r.ticket.id
                           THEN [t EXCEPT !.status = "checked_in"]
                           ELSE t : t \in tickets}
            /\ req' = [req EXCEPT ![c] =
                         [r EXCEPT !.pc = "log", !.outcome = "Success", !.checked = TRUE,
                                   !.ticket = [r.ticket EXCEPT !.status = "checked_in"]]]
            /\ now' = now + 1
       ELSE /\ req' = [req EXCEPT ![c] = Raise(r, "DatabaseError")]
            /\ UNCHANGED <<tickets, now>>
    /\ UNCHANGED <<events, event_staff, scanlogs, persons, session, reply>>

\* Ticket.check_in(): status and checked_in_at of the instance are set and
\* saved with update_fields (an UPDATE of the row with the instance's id,
\* whatever the row holds by now; DatabaseError when no row is left).
check_in(c) ==
    LET r == req[c] IN
    /\ r.kind = "checkin" /\ r.pc = "checkin"
    /\ IF \E t \in tickets : t.id = r.ticket.id
       THEN /\ tickets' = {IF t.id = r.ticket.id
                           THEN [t EXCEPT !.status = "checked_in", !.checked_in_at = now]
                           ELSE t : t \in tickets}
            /\ req' = [req EXCEPT ![c] =
                         [r EXCEPT !.pc = "log", !.outcome = "Success", !.checked = TRUE,
                                   !.ticket = [r.ticket EXCEPT !.status = "checked_in",
                                                               !.checked_in_at = now]]]
            /\ now' = now + 1
       ELSE /\ req' = [req EXCEPT ![c] = Raise(r, "DatabaseError")]
            /\ UNCHANGED <<tickets, now>>
    /\ UNCHANGED <<events, event_staff, scanlogs, persons, session, reply>>

\* self._log_scan(...) of the branch taken, then the Response.  The insert
\* fails (uncaught) when the Event instance passed has been deleted.
_log_scan(c) ==
    LET r == req[c] IN
    /\ r.kind = "checkin" /\ r.pc = "log"
    /\ IF EventRowMissing(ScanLogEntry(c, r, r.outcome).event)
       THEN /\ req' = [req EXCEPT ![c] = Raise(r, "IntegrityError")]
            /\ UNCHANGED scanlogs
       ELSE /\ scanlogs' = scanlogs \cup {ScanLogEntry(c, r, r.outcome)}
            /\ req' = [req EXCEPT ![c] =
                         [Return(r, r.outcome) EXCEPT !.nlogs = r.nlogs + 1]]
    /\ UNCHANGED <<events, event_staff, tickets, now, persons, session, reply>>

\* A check-in request with any input: known and unknown tokens and event
\* ids, sent by assigned staff or by an unassigned attendee.
CheckInStep(c) ==
    \/ CheckInPerson(c, Tokens, EventIds, Scanners)
    \/ CheckInEvent(c)
    \/ CheckInAuth(c)
    \/ CheckInTicket(c)
    \/ CheckInFull(c)
    \/ CheckInCreate(c)
    \/ check_in(c)
    \/ _log_scan(c)

\* A scan at the door: assigned staff scans an attendee's QR code for the
\* event.
DoorScanStep(c) ==
    \/ CheckInPerson(c, Attendees, {TheEvent}, {"staff"})
    \/ CheckInEvent(c)
    \/ CheckInAuth(c)
    \/ CheckInTicket(c)
    \/ CheckInFull(c)
    \/ CheckInCreate(c)
    \/ check_in(c)
    \/ _log_scan(c)

\* ---------------------------------------------- EventRegisterView.post

\* The users who send registration requests, and the event ids they name.
Registrants == Attendees
RegisterEventIds == {TheEvent}

\* POST /events/<uuid>/register arrives; get_object_or_404(Event, id=uuid).
\* person is request.user.person.
RegisterEvent(c) ==
    /\ MayBegin(c)
    /\ \E u \in Registrants, eid \in RegisterEventIds :
          LET r == [IdleReq EXCEPT !.kind = "register", !.actor = u,
                                   !.event_id = eid, !.person = u]
          IN req' = [req EXCEPT ![c] =
                       IF \E ev \in events : ev.id = eid
                       THEN [r EXCEPT !.pc = "r_full",
                                      !.ev = CHOOSE ev \in events : ev.id = eid]
                       ELSE Return(r, "NotFound")]
    /\ UNCHANGED <<events, event_staff, tickets, scanlogs, now, persons, session, reply>>

\* if event.is_full: 409 EVENT_FULL
RegisterFull(c) ==
    LET r == req[c] IN
    /\ r.kind = "register" /\ r.pc = "r_full"
    /\ req' = [req EXCEPT ![c] =
                 IF is_full(r.ev)
                 THEN Return(r, "RegistrationFull")
                 ELSE [r EXCEPT !.pc = "r_goc"]]
    /\ UNCHANGED <<events, event_staff, tickets, scanlogs, now, persons, session, reply>>

\* The code and HTTP status of each response of EventRegisterView.post.
RegisterCode(o) ==
    CASE o = "RegistrationFull" -> "EVENT_FULL"
      [] o = "AlreadyRegistered" -> "ALREADY_REGISTERED"
      [] OTHER -> "none"

RegisterStatus(o) ==
    CASE o \in {"RegistrationFull", "AlreadyRegistered"} -> 409
      [] o = "Registered" -> 201
      [] o = "NotFound" -> 404
      [] OTHER -> 200

\* The registration with every ticket that is not issued or checked in
\* reissued: an expired ticket is reactivated like a canceled one.
RegisterGetOrCreate_reissues_expired(c) ==
    LET r == req[c]
        t == FindTicket(r.person, r.ev.id)
    IN
    /\ r.kind = "register" /\ r.pc = "r_goc"
    /\ IF t = NoTicket
       THEN /\ tickets' = tickets \cup {NewTicket(r.person, r.ev.id)}
            /\ req' = [req EXCEPT ![c] =
                         [Return(r, "Registered") EXCEPT
                             !.ticket = NewTicket(r.person, r.ev.id),
                             !.created = TRUE]]
       ELSE /\ UNCHANGED tickets
            /\ req' = [req EXCEPT ![c] =
                         IF t.status \in {"canceled", "expired"}
                         THEN [r EXCEPT !.pc = "r_save", !.ticket = t]
                         ELSE Return(r, "AlreadyRegistered")]
    /\ UNCHANGED <<events, event_staff, scanlogs, now, persons, session, reply>>

\* Ticket.objects.get_or_create(person, event, defaults={status: ISSUED}):
\* the existing row, or a new one (get_or_create itself turns a lost race
\* for the unique constraint into the get).  Not created and canceled: the
\* view goes on to reactivate; not created otherwise: 409 ALREADY_REGISTERED.
RegisterGetOrCreate(c) ==
    LET r == req[c]
        t == FindTicket(r.person, r.ev.id)
    IN
    /\ r.kind = "register" /\ r.pc = "r_goc"
    /\ IF t = NoTicket
       THEN /\ tickets' = tickets \cup {NewTicket(r.person, r.ev.id)}
            /\ req' = [req EXCEPT ![c] =
                         [Return(r, "Registered") EXCEPT
                             !.ticket = NewTicket(r.person, r.ev.id),
                             !.created = TRUE]]
       ELSE /\ UNCHANGED tickets
            /\ req' = [req EXCEPT ![c] =
                         IF t.status = "canceled"
                         THEN [r EXCEPT !.pc = "r_save", !.ticket = t]
                         ELSE Return(r, "AlreadyRegistered")]
    /\ UNCHANGED <<events, event_staff, scanlogs, now, persons, session, reply>>

\* The reactivation resetting the ticket as if it were new: checked_in_at
\* is cleared along with the status.
RegisterReactivate_clears_timestamp(c) ==
    LET r == req[c] IN
    /\ r.kind = "register" /\ r.pc = "r_save"
    /\ IF \E t \in tickets : t.id = r.ticket.id
       THEN /\ tickets' = {IF t.id = r.ticket.id
                           THEN [t EXCEPT !.status = "issued", !.checked_in_at = 0]
                           ELSE t : t \in tickets}
            /\ req' = [req EXCEPT ![c] =
                         [Return(r, "Reactivated") EXCEPT
                             !.ticket = [r.ticket EXCEPT !.status = "issued"]]]
       ELSE /\ req' = [req EXCEPT ![c] = Raise(r, "DatabaseError")]
            /\ UNCHANGED tickets
    /\ UNCHANGED <<events, event_staff, scanlogs, now, persons, session, reply>>

\* ticket.status = ISSUED; ticket.save(update_fields=['status'])
RegisterReactivate(c) ==
    LET r == req[c] IN
    /\ r.kind = "register" /\ r.pc = "r_save"
    /\ IF \E t \in tickets : t.id = r.ticket.id
       THEN /\ tickets' = {IF t.id = r.ticket.id
                           THEN [t EXCEPT !.status = "issued"]
                           ELSE t : t \in tickets}
            /\ req' = [req EXCEPT ![c] =
                         [Return(r, "Reactivated") EXCEPT
                             !.ticket = [r.ticket EXCEPT !.status = "issued"]]]
       ELSE /\ req' = [req EXCEPT ![c] = Raise(r, "DatabaseError")]
            /\ UNCHANGED tickets
    /\ UNCHANGED <<events, event_staff, scanlogs, now, persons, session, reply>>

RegisterStep(c) ==
    \/ RegisterEvent(c)
    \/ RegisterFull(c)
    \/ RegisterGetOrCreate(c)
    \/ RegisterReactivate(c)

\* ------------------------------------ web_views.event_detail_page (POST)

\* POST /events/<uuid>/ with 'register' arrives; get_object_or_404.
WebRegisterEvent(c) ==
    /\ MayBegin(c)
    /\ \E u \in Registrants, eid \in RegisterEventIds :
          LET r == [IdleReq EXCEPT !.kind = "webregister", !.actor = u,
                                   !.event_id = eid, !.person = u]
          IN req' = [req EXCEPT ![c] =
                       IF \E ev \in events : ev.id = eid
                       THEN [r EXCEPT !.pc = "w_goc",
                                      !.ev = CHOOSE ev \in events : ev.id = eid]
                       ELSE Return(r, "NotFound")]
    /\ UNCHANGED <<events, event_staff, tickets, scanlogs, now, persons, session, reply>>

\* Ticket.objects.get_or_create(...); redirect.  No capacity check and no
\* look at the row found.
WebRegisterGetOrCreate(c) ==
    LET r == req[c]
        t == FindTicket(r.person, r.ev.id)
    IN
    /\ r.kind = "webregister" /\ r.pc = "w_goc"
    /\ IF t = NoTicket
       THEN /\ tickets' = tickets \cup {NewTicket(r.person, r.ev.id)}
            /\ req' = [req EXCEPT ![c] =
                         [Return(r, "Redirect") EXCEPT
                             !.ticket = NewTicket(r.person, r.ev.id),
                             !.created = TRUE]]
       ELSE /\ UNCHANGED tickets
            /\ req' = [req EXCEPT ![c] = Return(r, "Redirect")]
    /\ UNCHANGED <<events, event_staff, scanlogs, now, persons, session, reply>>

WebRegisterStep(c) ==
    \/ WebRegisterEvent(c)
    \/ WebRegisterGetOrCreate(c)

\* ------------------------------------------------------ admin.TicketAdmin

\* The admin site's Ticket change form (status is editable there; no view
\* cancels or expires a ticket): an administrator cancels a ticket.
AdminCancelTicket ==
    /\ \E t \in tickets :
          /\ t.status \in {"issued", "checked_in"}
          /\ tickets' = (tickets \ {t}) \cup {[t EXCEPT !.status = "canceled"]}
    /\ UNCHANGED <<events, event_staff, scanlogs, now, req, persons, session, reply>>

\* An administrator marks an issued ticket expired.
AdminExpireTicket ==
    /\ \E t \in tickets :
          /\ t.status = "issued"
          /\ tickets' = (tickets \ {t}) \cup {[t EXCEPT !.status = "expired"]}
    /\ UNCHANGED <<events, event_staff, scanlogs, now, req, persons, session, reply>>

\* ---------------------------------------------------- EventDashboardView

\* GET /events/<uuid>/dashboard/ by the event's assigned staff: the stats
\* block of the response ('registered' is computed in the view, 'is_full' is
\* the Event property).
EventDashboard ==
    /\ \E ev \in events :
          reply' = [kind |-> "dashboard", actor |-> "staff", target |-> ev.id,
                    status |-> 200,
                    data |-> [registered |->
                                  Cardinality({t \in tickets :
                                      t.event = ev.id /\ t.status # "canceled"}),
                              checked_in |->
                                  Cardinality({t \in tickets :
                                      t.event = ev.id /\ t.status = "checked_in"}),
                              capacity |-> ev.capacity,
                              is_full |-> is_full(ev)]]
    /\ UNCHANGED <<events, event_staff, tickets, scanlogs, now, req, persons, session>>

\* ------------------------------------------------------- admin.EventAdmin

\* The admin site deletes an Event.  on_delete=CASCADE removes the event's
\* tickets (Ticket.event) and its scan log rows (ScanLog.event); the staff
\* assignment rows go with the event.
AdminDeleteEvent ==
    /\ \E ev \in events :
          /\ events' = events \ {ev}
          /\ event_staff' = {s \in event_staff : s[1] # ev.id}
          /\ tickets' = {t \in tickets : t.event # ev.id}
          /\ scanlogs' = {l \in scanlogs : l.event # ev.id}
    /\ UNCHANGED <<now, req, persons, session, reply>>

\* ---------------------------------------------------------- Person views

\* Person.get_visible_contact: the name, and each contact field that is
\* marked visible and has a value.
get_visible_contact(p) ==
    [f \in {"name"} \cup {g \in ContactFields : g \in p.visibility /\ p[g] # ""}
        |-> p[f]]

\* PersonSerializer(person).data: every field of the row.
PersonSerializer(p) ==
    [f \in {"id", "name", "email", "organization", "phone", "links", "visibility"}
        |-> p[f]]

\* The identities that read and update persons, the person they address,
\* and the values an update sends.
Viewers == Attendees
Target == "alice"
PatchValues == {"", "a", "b"}
PatchFields == {"name", "email", "phone", "id"}
PatchVisibility == {{}, {"phone"}, {"email", "phone"}}

\* The owner check with every identity taken for the owner.
IsOwner_anyone(user, p) == TRUE

\* person.user == request.user
IsOwner(user, p) == p.id = user

\* PersonDetailView.get: both branches serialize the whole row.
PersonDetailGet ==
    /\ \E v \in Viewers :
          reply' = [kind |-> "person_detail", actor |-> v, target |-> Target,
                    status |-> 200, data |-> PersonSerializer(persons[Target])]
    /\ UNCHANGED <<events, event_staff, tickets, scanlogs, now, req, persons, session>>

\* PersonContactView.get: the owner sees everything, anyone else the
\* visible contact.
PersonContactGet ==
    /\ \E v \in Viewers :
          reply' = [kind |-> "contact", actor |-> v, target |-> Target,
                    status |-> 200,
                    data |-> IF IsOwner(v, persons[Target])
                             THEN PersonSerializer(persons[Target])
                             ELSE get_visible_contact(persons[Target])]
    /\ UNCHANGED <<events, event_staff, tickets, scanlogs, now, req, persons, session>>

\* contact_page: the public contact card, for a visitor who need not be
\* logged in.
ContactPage ==
    /\ reply' = [kind |-> "contact_page", actor |-> "anonymous", target |-> Target,
                 status |-> 200, data |-> get_visible_contact(persons[Target])]
    /\ UNCHANGED <<events, event_staff, tickets, scanlogs, now, req, persons, session>>

\* PersonContactView.patch with one field, or the visibility, in the body:
\* 403 unless the caller owns the person; ContactUpdateSerializer has no
\* field 'id', so an id in the body is ignored.
PersonContactPatch ==
    /\ \E v \in Viewers :
          IF ~IsOwner(v, persons[Target])
          THEN /\ reply' = [kind |-> "contact_patch", actor |-> v, target |-> Target,
                            status |-> 403, data |-> <<>>]
               /\ UNCHANGED persons
          ELSE \E q \in {[persons[Target] EXCEPT ![f] = x] :
                             f \in PatchFields \ {"id"}, x \in PatchValues}
                      \cup {[persons[Target] EXCEPT !.visibility = vis] :
                               vis \in PatchVisibility}
                      \cup {persons[Target]} :
                  /\ persons' = [persons EXCEPT ![Target] = q]
                  /\ reply' = [kind |-> "contact_patch", actor |-> v,
                               target |-> Target, status |-> 200,
                               data |-> PersonSerializer(q)]
    /\ UNCHANGED <<events, event_staff, tickets, scanlogs, now, req, session>>

\* profile_page (POST): the logged-in user's own person is updated from the
\* form: a field, and the visibility as the checkboxes say.
ProfilePost ==
    /\ \E f \in PatchFields \ {"id"}, x \in PatchValues, vis \in PatchVisibility :
          /\ persons' = [persons EXCEPT ![Target] =
                            [persons[Target] EXCEPT ![f] = x, !.visibility = vis]]
          /\ reply' = [kind |-> "profile", actor |-> Target, target |-> Target,
                       status |-> 200, data |-> <<>>]
    /\ UNCHANGED <<events, event_staff, tickets, scanlogs, now, req, session>>

\* ------------------------------------------------- event create and edit

\* EventListCreateView.post / event_create_page by the organizer:
\* EventCreateSerializer takes start_time, end_time and capacity as sent
\* (it declares no validation), the event is saved with created_by and the
\* creator is added to its staff.
CreateEvent ==
    /\ \A ev \in events : ev.id # NewEvent
    /\ \E st \in Times, en \in Times, cap \in 0..MaxCapacity :
          events' = events \cup
              {[id |-> NewEvent, capacity |-> cap, allow_walkins |-> FALSE,
                created_by |-> "organizer", start_time |-> st, end_time |-> en]}
    /\ event_staff' = event_staff \cup {<<NewEvent, "organizer">>}
    /\ UNCHANGED <<tickets, scanlogs, now, req, persons, session, reply>>

\* event_edit_page (POST) by the event's creator: EventForm (a ModelForm
\* with no clean method) takes start_time, end_time and capacity as sent
\* and form.save() stores them.  sts, ens, caps: the values submitted.
EditEventWith(sts, ens, caps) ==
    /\ \E ev \in events, st \in sts, en \in ens, cap \in caps :
          /\ ev.created_by = "organizer"
          /\ events' = (events \ {ev}) \cup
                 {[ev EXCEPT !.start_time = st, !.end_time = en, !.capacity = cap]}
    /\ UNCHANGED <<event_staff, tickets, scanlogs, now, req, persons, session, reply>>

\* An edit with any times and capacity.
EditEvent == EditEventWith(Times, Times, 0..MaxCapacity)

\* An edit of the capacity that resubmits the event's times.
EditCapacity ==
    \E ev \in events :
        EditEventWith({ev.start_time}, {ev.end_time}, 0..MaxCapacity)

\* An edit of the start time that resubmits the event's end time and
\* capacity.
EditStartTime ==
    \E ev \in events :
        EditEventWith(Times, {ev.end_time}, {ev.capacity})

\* toggle_walkins (POST) by the organizer: allow_walkins is flipped and
\* saved.
ToggleWalkins ==
    /\ \E ev \in events :
          events' = (events \ {ev}) \cup
              {[ev EXCEPT !.allow_walkins = ~ev.allow_walkins]}
    /\ UNCHANGED <<event_staff, tickets, scanlogs, now, req, persons, session, reply>>

\* --------------------------------------------------------- Event.staff

\* The accounts whose staff assignment changes: an account of role staff
\* and an attendee.
StaffCandidates == {"staff", "bob"}

\* EventStaffView.post by the organizer: event.staff.add(user).
AssignStaff ==
    /\ \E u \in StaffCandidates, ev \in events :
          /\ <<ev.id, u>> \notin event_staff
          /\ event_staff' = event_staff \cup {<<ev.id, u>>}
    /\ UNCHANGED <<events, tickets, scanlogs, now, req, persons, session, reply>>

\* The admin site's Event change form (filter_horizontal staff): an
\* administrator takes an account out of the event's staff.
AdminUnassignStaff ==
    /\ \E u \in StaffCandidates, ev \in events :
          /\ <<ev.id, u>> \in event_staff
          /\ event_staff' = event_staff \ {<<ev.id, u>>}
    /\ UNCHANGED <<events, tickets, scanlogs, now, req, persons, session, reply>>

\* ------------------------------------------------- scanner active event

\* User.is_staff_or_above
is_staff_or_above(u) == Role(u) \in {"staff", "organizer", "admin"}

\* The test by role alone: every account of role staff or above may select
\* every event.
MayScanFor_by_role(u, ev) == is_staff_or_above(u)

\* The inline test of select_event and _get_active_event: admin role, the
\* event's creator, or a member of its staff.
MayScanFor(u, ev) ==
    \/ Role(u) = "admin"
    \/ ev.created_by = u
    \/ <<ev.id, u>> \in event_staff

\* The users who open the scanner pages, and the event_uuid values they
\* post ("" is the deselect button).
ScannerUsers == {"admin", "organizer", "staff", "bob"}

PostedEventIds == {"", TheEvent, UnknownEvent}

\* The helper with no re-check: the session's event is returned as long as
\* it exists.
_get_active_event_unchecked(u) ==
    IF session[u] = "none"
    THEN [event |-> "none", clear |-> FALSE]
    ELSE IF ~\E ev \in events : ev.id = session[u]
         THEN [event |-> "none", clear |-> TRUE]
         ELSE [event |-> session[u], clear |-> FALSE]

\* _get_active_event for the session of user u: the event returned ("none"
\* for None) and whether _clear_active_event ran.
_get_active_event(u) ==
    IF session[u] = "none"
    THEN [event |-> "none", clear |-> FALSE]
    ELSE IF ~\E ev \in events : ev.id = session[u]
         THEN [event |-> "none", clear |-> TRUE]
         ELSE LET ev == CHOOSE e \in events : e.id = session[u]
              IN IF ~MayScanFor(u, ev)
                 THEN [event |-> "none", clear |-> TRUE]
                 ELSE [event |-> ev.id, clear |-> FALSE]

\* scanner_page: the active event handed to the template; reply.data keeps
\* what the session held when the request arrived.
ScannerPage ==
    /\ \E u \in ScannerUsers :
          LET g == _get_active_event(u) IN
          /\ reply' = [kind |-> "scanner", actor |-> u,
                       target |-> IF is_staff_or_above(u) THEN g.event ELSE "none",
                       status |-> 200, data |-> [selected |-> session[u]]]
          /\ session' = IF is_staff_or_above(u) /\ g.clear
                         THEN [session EXCEPT ![u] = "none"]
                         ELSE session
    /\ UNCHANGED <<events, event_staff, tickets, scanlogs, now, req, persons>>

\* select_event (POST): redirect home for an attendee; deselect on an empty
\* event_uuid; 404 for an unknown event; the event list with an error for a
\* user who may not scan for the event; otherwise the selection is stored.
SelectEvent ==
    /\ \E u \in ScannerUsers, eid \in PostedEventIds :
          LET R(st) == [kind |-> "select", actor |-> u, target |-> eid,
                        status |-> st, data |-> [selected |-> session[u]]]
          IN
          IF ~is_staff_or_above(u)
          THEN reply' = R(302) /\ UNCHANGED session
          ELSE IF eid = ""
          THEN reply' = R(302) /\ session' = [session EXCEPT ![u] = "none"]
          ELSE IF ~\E ev \in events : ev.id = eid
          THEN reply' = R(404) /\ UNCHANGED session
          ELSE IF ~MayScanFor(u, CHOOSE ev \in events : ev.id = eid)
          THEN reply' = R(200) /\ UNCHANGED session
          ELSE reply' = R(302) /\ session' = [session EXCEPT ![u] = eid]
    /\ UNCHANGED <<events, event_staff, tickets, scanlogs, now, req, persons>>

\* --------------------------------------------------------- store failure

\* The database becomes unavailable under a check-in request that is about
\* to run an ORM call: the call raises OperationalError, which no handler
\* catches.  Nothing the request wrote before is undone (autocommit).
StorageFault(c) ==
    LET r == req[c] IN
    /\ r.kind = "checkin"
    /\ r.pc \in {"event", "auth", "ticket", "full", "create", "checkin", "log"}
    /\ req' = [req EXCEPT ![c] = Raise(r, "OperationalError")]
    /\ UNCHANGED <<events, event_staff, tickets, scanlogs, now, persons, session, reply>>

\* ---------------------------------------------------------- specifications

\* No other request is between its arrival and its response.
Alone(c) ==
    \A d \in Calls \ {c} : req[d].pc \in {"idle", "done", "fault"}

\* Door scans, registrations and the administrator, interleaved.
Next ==
    \/ \E c \in Calls : DoorScanStep(c)
    \/ \E c \in Calls : RegisterStep(c)
    \/ \E c \in Calls : WebRegisterStep(c)
    \/ AdminCancelTicket
    \/ AdminExpireTicket

Spec == Init /\ [][Next]_vars

\* As Spec, with no ticket ever marked expired.
NextCancel ==
    \/ \E c \in Calls : DoorScanStep(c)
    \/ \E c \in Calls : RegisterStep(c)
    \/ \E c \in Calls : WebRegisterStep(c)
    \/ AdminCancelTicket

SpecCancel == Init /\ [][NextCancel]_vars

\* Concurrent check-in requests with any input, and nothing else.
NextScan == \E c \in Calls : CheckInStep(c)

SpecScan == Init /\ [][NextScan]_vars

\* request.user of a sequential check-in call: admin role, the event's
\* creator, assigned staff, and an attendee with no assignment.
Callers == {"admin", "organizer", "staff", "alice"}

\* Check-in requests one after the other: each step belongs to the only
\* request in flight.
NextSeq ==
    \E c \in Calls :
       /\ Alone(c)
       /\ \/ CheckInPerson(c, Tokens, EventIds, Callers)
          \/ CheckInEvent(c)
          \/ CheckInAuth(c)
          \/ CheckInTicket(c)
          \/ CheckInFull(c)
          \/ CheckInCreate(c)
          \/ check_in(c)
          \/ _log_scan(c)

SpecSeq == Init /\ [][NextSeq]_vars

\* Door scans and registrations one after the other, the administrator's
\* edits of tickets, and reads of the dashboard.
NextDash ==
    \/ \E c \in Calls : Alone(c) /\ (DoorScanStep(c) \/ RegisterStep(c))
    \/ AdminCancelTicket
    \/ AdminExpireTicket
    \/ EventDashboard

SpecDash == Init /\ [][NextDash]_vars

\* The organizer creates and edits events and toggles walk-ins; an
\* administrator deletes events.
NextEvents ==
    \/ CreateEvent
    \/ EditEvent
    \/ ToggleWalkins
    \/ AdminDeleteEvent

SpecEvents == Init /\ [][NextEvents]_vars

\* The scanner pages while staff assignments change and an administrator
\* may delete the event.
NextSession ==
    \/ SelectEvent
    \/ ScannerPage
    \/ AssignStaff
    \/ AdminUnassignStaff
    \/ AdminDeleteEvent

SpecSession == Init /\ [][NextSession]_vars

\* Every entry point that issues or reactivates a ticket, one request after
\* the other, with tickets canceled in between.
NextEntry ==
    \/ \E c \in Calls :
          Alone(c) /\ (DoorScanStep(c) \/ RegisterStep(c) \/ WebRegisterStep(c))
    \/ AdminCancelTicket

SpecEntry == Init /\ [][NextEntry]_vars

\* Check-in requests for the event, one after the other, while the
\* organizer moves the event's start time.
NextWindow ==
    \/ \E c \in Calls :
          /\ Alone(c)
          /\ \/ CheckInPerson(c, Attendees, {TheEvent}, Scanners)
             \/ CheckInEvent(c)
             \/ CheckInAuth(c)
             \/ CheckInTicket(c)
             \/ CheckInFull(c)
             \/ CheckInCreate(c)
             \/ check_in(c)
             \/ _log_scan(c)
    \/ EditStartTime

SpecWindow == Init /\ [][NextWindow]_vars

\* Concurrent check-in requests against a store that may become unavailable.
NextFail ==
    \/ \E c \in Calls : CheckInStep(c)
    \/ \E c \in Calls : StorageFault(c)

SpecFail == Init /\ [][NextFail]_vars

\* Concurrent check-in requests while an administrator may delete the event.
NextAdmin ==
    \/ \E c \in Calls : CheckInStep(c)
    \/ AdminDeleteEvent

SpecAdmin == Init /\ [][NextAdmin]_vars

\* request.user of a check-in call while staff assignments change: admin
\* role, the event's creator, and the two accounts whose assignment changes.
StaffCallers == {"admin", "organizer", "staff", "bob"}

\* Scans of one attendee by callers of every kind, one call at a time,
\* while accounts are assigned to and taken out of the event's staff at any
\* moment, between the steps of a call included.
NextStaff ==
    \/ \E c \in Calls :
          /\ Alone(c)
          /\ \/ CheckInPerson(c, {"alice"}, {TheEvent}, StaffCallers)
             \/ CheckInEvent(c)
             \/ CheckInAuth(c)
             \/ CheckInTicket(c)
             \/ CheckInFull(c)
             \/ CheckInCreate(c)
             \/ check_in(c)
             \/ _log_scan(c)
    \/ AssignStaff
    \/ AdminUnassignStaff

SpecStaff == Init /\ [][NextStaff]_vars

\* Reads and updates of a person by its owner and by others.
NextPerson ==
    \/ PersonDetailGet
    \/ PersonContactGet
    \/ ContactPage
    \/ PersonContactPatch
    \/ ProfilePost

SpecPerson == Init /\ [][NextPerson]_vars

\* request.user of a probing call: accounts with no authorization for the
\* event.
Outsiders == {"alice", "bob"}

\* Check-in calls, one at a time, by callers who are not authorized for
\* the event, while the event's tickets, capacity and walk-in setting
\* change.
NextProbe ==
    \/ \E c \in Calls :
          /\ Alone(c)
          /\ \/ CheckInPerson(c, {"alice"}, {TheEvent}, Outsiders)
             \/ CheckInEvent(c)
             \/ CheckInAuth(c)
    \/ AdminCancelTicket
    \/ EditCapacity
    \/ ToggleWalkins

SpecProbe == Init /\ [][NextProbe]_vars

\* ------------------------------------------------------------------ claims

\* The ScanLog rows request c inserted.
LogsOf(c) == {l \in scanlogs : l.id[1] = c}

\* The outcomes CheckInView.post answers with.
CheckInOutcomes ==
    {"Success", "AlreadyCheckedIn", "NotRegistered", "TicketCanceled", "EventFull",
     "EventNotFound", "PersonNotFound", "Unauthorized"}

\* C1: among concurrent check-in calls for the same (person, event), at most
\* one performs the issued -> checked_in transition (writes status and
\* checked_in_at) and answers Success.
C1_AtMostOneTransition ==
    \A c \in Calls : \A d \in Calls \ {c} :
        (req[c].person = req[d].person /\ req[c].ev.id = req[d].ev.id)
            => ~(req[c].checked /\ req[d].checked)

\* C2: every check-in call that passed the authorization step and has ended
\* has inserted exactly one ScanLog row, whose result and reason are those of
\* the outcome it answered.
C2_AuditCompleteness ==
    \A c \in Calls :
        (req[c].kind = "checkin" /\ Ended(c) /\ req[c].authorized)
            => /\ req[c].nlogs = 1
               /\ Cardinality(LogsOf(c)) = 1
               /\ \A l \in LogsOf(c) :
                     /\ l.result = LogResult(req[c].outcome)
                     /\ l.reason = LogReason(req[c].outcome)

\* C3: in every reachable state there is at most one Ticket row for each
\* (person, event) pair.
C3_OneTicketPerPair ==
    \A t \in tickets : \A u \in tickets :
        (t.person = u.person /\ t.event = u.event) => t = u

\* C3 witness: the storage constraint has rejected a second insert for a
\* pair that has its ticket.
C3_ConstraintRejectedInsert ==
    \E c \in Calls :
        /\ req[c].fault = "IntegrityError"
        /\ \E t \in tickets : t.person = req[c].person /\ t.event = req[c].ev.id

\* C4: for an event with capacity N > 0 the number of non-canceled tickets
\* never exceeds N, whatever the interleaving of walk-in check-ins.
C4_CapacityNeverExceeded ==
    \A ev \in events :
        ev.capacity > 0 => registration_count(ev.id) <= ev.capacity

\* C5: a check-in call that has ended (with a response or with a failure)
\* has changed its ticket to checked_in exactly if it has left a success
\* ScanLog row: the two writes commit together or not at all.
C5_TicketAndAuditCommitTogether ==
    \A c \in Calls :
        Ended(c) => (req[c].checked <=> \E l \in LogsOf(c) : l.result = "success")

\* A ticket seed_demo issued: it exists, issued, before any check-in call.
IssuedBeforeAnyCall(p) ==
    \E t \in tickets : t.person = p /\ t.event = TheEvent /\ t.issued_at = 0

\* An authorized check-in call for the same (person, event) that came
\* before call c.
EarlierCall(c) ==
    {d \in Calls : d < c /\ req[d].authorized /\ req[d].person = req[c].person
                        /\ req[d].ev.id = req[c].ev.id}

\* C6: for a person with an issued ticket, in a sequential run of check-in
\* calls by authorized callers, the first call for the pair answers Success
\* and leaves the ticket checked_in, and every later one answers
\* AlreadyCheckedIn.
C6_OneSuccessThenDuplicate ==
    \A c \in Calls :
        (Ended(c) /\ req[c].authorized /\ IssuedBeforeAnyCall(req[c].person))
            => /\ req[c].pc = "done"
               /\ FindTicket(req[c].person, req[c].ev.id).status = "checked_in"
               /\ IF EarlierCall(c) = {}
                  THEN req[c].outcome = "Success"
                  ELSE req[c].outcome = "AlreadyCheckedIn"

\* C6 witness: two sequential authorized calls for a person whose ticket was
\* issued: the first answered Success, the second AlreadyCheckedIn.
C6_SecondScanAnswered ==
    \E c \in Calls : \E d \in EarlierCall(c) :
        /\ IssuedBeforeAnyCall(req[c].person)
        /\ req[d].outcome = "Success" /\ req[d].pc = "done"
        /\ req[c].outcome = "AlreadyCheckedIn" /\ req[c].pc = "done"

\* C7: a ticket creation that loses the race for a (person, event) pair gets
\* a typed duplicate signal: no request ends in the raw constraint violation.
C7_DuplicateIsTyped ==
    \A c \in Calls : req[c].fault # "IntegrityError"

Lifecycle ==
    {<<"issued", "checked_in">>, <<"issued", "canceled">>,
     <<"checked_in", "canceled">>, <<"canceled", "issued">>}

\* C9: every change of a ticket's status is issued -> checked_in,
\* issued -> canceled, checked_in -> canceled or canceled -> issued; a
\* ticket is moved to checked_in only from the stored status issued.
C9_LifecycleTransitions ==
    [][\A t \in tickets : \A u \in tickets' :
          (u.id = t.id /\ u.status # t.status)
              => <<t.status, u.status>> \in Lifecycle]_vars

\* C10: every check-in call that has ended has answered one of the typed
\* outcomes; none ends in an unhandled exception.
C10_TypedOutcomesOnly ==
    \A c \in Calls :
        (req[c].kind = "checkin" /\ req[c].pc \in {"done", "fault"})
            => /\ req[c].pc = "done"
               /\ req[c].outcome \in CheckInOutcomes

\* C11: the scan log is append-only: no step of any operation (check-in,
\* event deletion) removes a ScanLog row or changes a field of one; every
\* row of the log is in the log, unchanged, after the step.
C11_ScanLogAppendOnly ==
    [][\A l \in scanlogs : l \in scanlogs']_vars

\* The tickets stored for the pair a request is about.
TicketsOfPair(r) ==
    {t \in tickets : t.person = r.person /\ t.event = r.ev.id}

\* C12: a call that found no ticket for a person, with walk-ins allowed and
\* the event not full, creates exactly one ticket for the pair, leaves it
\* checked_in with checked_in_at set, answers Success (200) and writes
\* exactly one ScanLog row, of result success; and a check-in call inserts a
\* ticket only while the stored event allows walk-ins and is not full.
C12_WalkInCheckedIn ==
    /\ [][\A c \in Calls :
            (req[c].kind = "checkin" /\ req[c].pc = "create" /\ req'[c] # req[c])
                => /\ req'[c].created
                   /\ TicketsOfPair(req[c]) = {}
                   /\ Cardinality(TicketsOfPair(req[c])') = 1]_vars
    /\ [](\A c \in Calls :
            (req[c].kind = "checkin" /\ req[c].created /\ Ended(c))
                => /\ req[c].pc = "done" /\ req[c].outcome = "Success"
                   /\ HttpStatus(req[c].outcome) = 200
                   /\ \A t \in TicketsOfPair(req[c]) :
                         t.status = "checked_in" /\ t.checked_in_at # 0
                   /\ Cardinality(TicketsOfPair(req[c])) = 1
                   /\ req[c].nlogs = 1 /\ Cardinality(LogsOf(c)) = 1
                   /\ \A l \in LogsOf(c) : l.result = "success")
    /\ [][\A c \in Calls :
            (req[c].kind = "checkin" /\ ~req[c].created /\ req'[c].created)
                => \A ev \in events :
                      ev.id = req[c].ev.id => ev.allow_walkins /\ ~is_full(ev)]_vars

\* The event of request r holds as many non-canceled tickets as its
\* capacity (> 0) allows, or more.
AtCapacity(r) ==
    /\ r.ev.capacity > 0
    /\ Cardinality({t \in tickets : t.event = r.ev.id /\ t.status # "canceled"})
           >= r.ev.capacity

\* C13: when an authorized call that found no ticket reaches the capacity
\* check of the walk-in branch and the event is at capacity, it takes the
\* EventFull branch and inserts no ticket; a call that answers EventFull
\* answers 409 EVENT_FULL, has created no ticket and checked nobody in, and
\* has written exactly one ScanLog row, of result not_registered and reason
\* walkin_capacity_full.
C13_WalkInRefusedWhenFull ==
    /\ [][\A c \in Calls :
            (/\ req[c].kind = "checkin" /\ req[c].pc = "full" /\ req'[c] # req[c]
             /\ AtCapacity(req[c]))
                => /\ req'[c].pc = "log" /\ req'[c].outcome = "EventFull"
                   /\ UNCHANGED tickets]_vars
    /\ [](\A c \in Calls :
            (req[c].kind = "checkin" /\ Ended(c) /\ req[c].outcome = "EventFull")
                => /\ req[c].pc = "done" /\ req[c].authorized
                   /\ req[c].ev.allow_walkins /\ AtCapacity(req[c])
                   /\ HttpStatus(req[c].outcome) = 409
                   /\ ResponseCode(req[c].outcome) = "EVENT_FULL"
                   /\ ~req[c].created /\ ~req[c].checked
                   /\ req[c].nlogs = 1 /\ Cardinality(LogsOf(c)) = 1
                   /\ \A l \in LogsOf(c) :
                         /\ l.result = "not_registered"
                         /\ l.reason = "walkin_capacity_full"
                         /\ l.person = req[c].person /\ l.event = req[c].ev.id)

\* C13 witness: a walk-in was refused at a full event: the call answered
\* EventFull, the person has no ticket, the row is in the log.
C13_WalkInRefused ==
    \E c \in Calls :
        /\ req[c].pc = "done" /\ req[c].outcome = "EventFull"
        /\ TicketsOfPair(req[c]) = {} /\ AtCapacity(req[c])
        /\ \E l \in LogsOf(c) : l.reason = "walkin_capacity_full"

\* C14: when an authorized call looks up the ticket of a person who has
\* none and the event's walk-ins are disabled, it takes the NotRegistered
\* branch and inserts no ticket, whatever the capacity; a call that answers
\* NotRegistered answers 404 NOT_REGISTERED, has created no ticket and
\* checked nobody in, and has written exactly one ScanLog row, of result
\* not_registered, for the person and the event.
C14_NotRegisteredWithoutWalkIns ==
    /\ [][\A c \in Calls :
            (/\ req[c].kind = "checkin" /\ req[c].pc = "ticket" /\ req'[c] # req[c]
             /\ TicketsOfPair(req[c]) = {} /\ ~req[c].ev.allow_walkins)
                => /\ req'[c].pc = "log" /\ req'[c].outcome = "NotRegistered"
                   /\ UNCHANGED tickets]_vars
    /\ [](\A c \in Calls :
            (req[c].kind = "checkin" /\ Ended(c) /\ req[c].outcome = "NotRegistered")
                => /\ req[c].pc = "done" /\ req[c].authorized
                   /\ ~req[c].ev.allow_walkins /\ TicketsOfPair(req[c]) = {}
                   /\ HttpStatus(req[c].outcome) = 404
                   /\ ResponseCode(req[c].outcome) = "NOT_REGISTERED"
                   /\ ~req[c].created /\ ~req[c].checked
                   /\ req[c].nlogs = 1 /\ Cardinality(LogsOf(c)) = 1
                   /\ \A l \in LogsOf(c) :
                         /\ l.result = "not_registered" /\ l.reason = "none"
                         /\ l.person = req[c].person /\ l.event = req[c].ev.id)

\* C14 witness: a person without a ticket was answered NotRegistered at an
\* event with walk-ins disabled that is at capacity.
C14_NotRegisteredAtFullEvent ==
    \E c \in Calls :
        /\ req[c].pc = "done" /\ req[c].outcome = "NotRegistered"
        /\ ~req[c].ev.allow_walkins /\ AtCapacity(req[c])
        /\ \E l \in LogsOf(c) : l.result = "not_registered"

C16_CanceledNeverCheckedIn ==
    /\ [][\A c \in Calls :
            (/\ req[c].kind = "checkin" /\ req[c].pc = "ticket" /\ req'[c] # req[c]
             /\ \E t \in TicketsOfPair(req[c]) : t.status = "canceled")
                => /\ req'[c].pc = "log" /\ req'[c].outcome = "TicketCanceled"
                   /\ UNCHANGED tickets]_vars
    /\ [][\A c \in Calls :
            (req[c].outcome = "TicketCanceled" /\ req'[c] # req[c])
                => UNCHANGED tickets]_vars
    /\ [](\A c \in Calls :
            (req[c].kind = "checkin" /\ Ended(c) /\ req[c].outcome = "TicketCanceled")
                => /\ req[c].pc = "done"
                   /\ HttpStatus(req[c].outcome) = 409
                   /\ ResponseCode(req[c].outcome) = "TICKET_CANCELED"
                   /\ ~req[c].created /\ ~req[c].checked
                   /\ req[c].nlogs = 1 /\ Cardinality(LogsOf(c)) = 1
                   /\ \A l \in LogsOf(c) :
                         l.result = "invalid" /\ l.reason = "ticket_canceled")
    /\ [][\A t \in tickets : \A u \in tickets' :
            (u.id = t.id /\ t.status = "canceled") => u.status # "checked_in"]_vars

\* C17: a check-in call whose person token is the id of no Person answers
\* PersonNotFound (404, code INVALID), no step of it writes a ticket, and it
\* writes exactly one ScanLog row: result invalid, person null, event null,
\* scanned_value the token, actor the caller; whoever the caller is and
\* whether or not the event id resolves.
C17_PersonNotFound ==
    /\ [][\A c \in Calls :
            (req'[c].kind = "checkin" /\ req'[c].token = UnknownToken
             /\ req'[c] # req[c])
                => UNCHANGED tickets]_vars
    /\ [](\A c \in Calls :
            (req[c].kind = "checkin" /\ req[c].token = UnknownToken)
                => req[c].outcome = "PersonNotFound" /\ req[c].pc \in {"log", "done"})
    /\ [](\A c \in Calls :
            (req[c].kind = "checkin" /\ Ended(c) /\ req[c].token = UnknownToken)
                => /\ req[c].pc = "done" /\ req[c].outcome = "PersonNotFound"
                   /\ HttpStatus(req[c].outcome) = 404
                   /\ ResponseCode(req[c].outcome) = "INVALID"
                   /\ ~req[c].created /\ ~req[c].checked
                   /\ req[c].nlogs = 1 /\ Cardinality(LogsOf(c)) = 1
                   /\ \A l \in LogsOf(c) :
                         /\ l.result = "invalid"
                         /\ l.person = "none" /\ l.event = "none"
                         /\ l.scanned_value = req[c].token
                         /\ l.actor = req[c].actor)

\* C17 witness: two scans of an unknown token were answered PersonNotFound
\* and logged: one by assigned staff naming the event, one by an unassigned
\* caller naming an event id that resolves to nothing.
C17_UnknownTokenLogged ==
    \E c \in Calls : \E d \in Calls :
        /\ req[c].pc = "done" /\ req[c].outcome = "PersonNotFound"
        /\ req[c].actor = "staff" /\ req[c].event_id = TheEvent
        /\ req[d].pc = "done" /\ req[d].outcome = "PersonNotFound"
        /\ req[d].actor = "alice" /\ req[d].event_id = UnknownEvent
        /\ \E l \in LogsOf(c) : l.scanned_value = UnknownToken
        /\ \E l \in LogsOf(d) : l.scanned_value = UnknownToken

\* C18: a check-in call whose person resolves and whose event id is the id
\* of no Event answers EventNotFound (404, code INVALID), no step of it
\* writes a ticket, and it writes exactly one ScanLog row: result invalid,
\* the resolved person, a null event.
C18_EventNotFound ==
    /\ [][\A c \in Calls :
            (req'[c].kind = "checkin" /\ req'[c].token \in Users
             /\ req'[c].event_id = UnknownEvent /\ req'[c] # req[c])
                => UNCHANGED tickets]_vars
    /\ [](\A c \in Calls :
            (/\ req[c].kind = "checkin" /\ Ended(c)
             /\ req[c].token \in Users /\ req[c].event_id = UnknownEvent)
                => /\ req[c].pc = "done" /\ req[c].outcome = "EventNotFound"
                   /\ HttpStatus(req[c].outcome) = 404
                   /\ ResponseCode(req[c].outcome) = "INVALID"
                   /\ ~req[c].created /\ ~req[c].checked
                   /\ req[c].nlogs = 1 /\ Cardinality(LogsOf(c)) = 1
                   /\ \A l \in LogsOf(c) :
                         /\ l.result = "invalid"
                         /\ l.person = req[c].token /\ l.person # "none"
                         /\ l.event = "none"
                         /\ l.actor = req[c].actor)

\* C18 witness: a scan of a known person for an unknown event id was
\* answered EventNotFound and logged with the person.
C18_UnknownEventLogged ==
    \E c \in Calls : \E l \in LogsOf(c) :
        /\ req[c].pc = "done" /\ req[c].outcome = "EventNotFound"
        /\ req[c].token \in Attendees
        /\ l.person = req[c].token /\ l.event = "none"

\* C19: re-registration reactivates a canceled ticket through every entry
\* point: when a registration request (API or web event-detail page) of a
\* person whose stored ticket for the event is canceled completes, accepted,
\* the pair still has exactly one ticket, the same one, and its status is
\* issued (so that a following check-in finds it issued).
C19_ReRegistrationReactivates ==
    [][\A c \in Calls :
          (/\ req[c].kind \in {"register", "webregister"}
           /\ req[c].pc # "done" /\ req'[c].pc = "done"
           /\ req'[c].outcome \in {"Registered", "Reactivated", "AlreadyRegistered",
                                    "Redirect"}
           /\ \E t \in TicketsOfPair(req[c]) : t.status = "canceled")
              => /\ Cardinality(TicketsOfPair(req[c])') = 1
                 /\ \A t \in TicketsOfPair(req[c]) : \A u \in TicketsOfPair(req[c])' :
                       u.id = t.id /\ u.status = "issued"]_vars

\* C20: the authorization step of a check-in call lets the caller pass if
\* and only if, in the stored state at that step, the caller has the admin
\* role, or is the creator of the event, or is in the event's staff set;
\* every other caller, whatever the role, is answered Unauthorized.
C20_AuthorizedIffAdminCreatorOrStaff ==
    [][\A c \in Calls :
          (req[c].kind = "checkin" /\ req[c].pc = "auth" /\ req'[c] # req[c])
              => /\ req'[c].authorized <=>
                       \/ Role(req[c].actor) = "admin"
                       \/ \E ev \in events :
                             ev.id = req[c].event_id /\ ev.created_by = req[c].actor
                       \/ <<req[c].event_id, req[c].actor>> \in event_staff
                 /\ req'[c].authorized => req'[c].pc = "ticket"
                 /\ ~req'[c].authorized =>
                       req'[c].pc = "done" /\ req'[c].outcome = "Unauthorized"]_vars

\* C20 witness: an account of role staff that is not in the staff set was
\* refused, and an attendee who is in the staff set passed.
C20_RoleRefusedMemberPassed ==
    \E c \in Calls : \E d \in Calls :
        /\ req[c].actor = "staff" /\ Role(req[c].actor) = "staff"
        /\ req[c].pc = "done" /\ req[c].outcome = "Unauthorized"
        /\ req[d].actor = "bob" /\ Role(req[d].actor) = "attendee"
        /\ req[d].authorized /\ req[d].pc = "done"

\* What the caller of request c sees: outcome, response code, HTTP status.
Response(c) ==
    <<req[c].outcome, ResponseCode(req[c].outcome), HttpStatus(req[c].outcome)>>

\* C21: the response to a caller who is not authorized for an event, and
\* what the call changes, do not depend on the event's tickets, capacity or
\* walk-in setting: whatever those are when the call runs, and however they
\* differ between two such calls, the response is the same (Unauthorized,
\* 403) and no step of the call changes the store or the scan log.
C21_UnauthorizedLearnsNothing ==
    /\ [](\A c \in Calls : \A d \in Calls :
            (/\ req[c].kind = "checkin" /\ req[c].pc = "done"
             /\ req[d].kind = "checkin" /\ req[d].pc = "done"
             /\ req[c].ev # NoEvent /\ req[d].ev # NoEvent
             /\ ~req[c].authorized /\ ~req[d].authorized)
                => /\ Response(c) = Response(d)
                   /\ Response(c) = <<"Unauthorized", "UNAUTHORIZED", 403>>
                   /\ LogsOf(c) = {} /\ LogsOf(d) = {})
    /\ [][\A c \in Calls :
            (req'[c].kind = "checkin" /\ req'[c].actor \in Outsiders
             /\ req'[c] # req[c])
                => UNCHANGED <<events, event_staff, tickets, scanlogs>>]_vars

\* C21 witness: two unauthorized calls for the same person ran against
\* events that differ in tickets, capacity and walk-in setting, and both
\* were answered.
C21_ProbedDifferentEvents ==
    \E c \in Calls : \E d \in Calls :
        /\ req[c].pc = "done" /\ req[d].pc = "done"
        /\ req[c].kind = "checkin" /\ req[d].kind = "checkin"
        /\ req[c].person = req[d].person
        /\ req[c].ev # NoEvent /\ req[d].ev # NoEvent
        /\ req[c].ev.capacity # req[d].ev.capacity
        /\ req[c].ev.allow_walkins # req[d].ev.allow_walkins
        /\ \E t \in tickets : t.person = req[c].person /\ t.status = "canceled"

\* The person read endpoints.
PersonReads == {"person_detail", "contact", "contact_page"}

\* C22: what a person read endpoint (person detail, contact view, public
\* contact page) returns to anyone but the owner holds, of email,
\* organization, phone and links, only fields that are marked visible, each
\* with the stored value; and a read changes no Person row.
C22_HiddenFieldsNotExposed ==
    [][(reply' # reply /\ reply'.kind \in PersonReads)
          => /\ UNCHANGED persons
             /\ reply'.actor # persons[reply'.target].id
                   => \A f \in (DOMAIN reply'.data) \cap ContactFields :
                         /\ f \in persons[reply'.target].visibility
                         /\ reply'.data[f] = persons[reply'.target][f]]_vars

\* C23: a Person row changes only in a step requested by its owner; a
\* contact update requested by anyone else is answered 403 and changes no
\* Person row; and no step changes a person's id (the token).
C23_OnlyOwnerUpdates ==
    [][/\ \A u \in DOMAIN persons :
            /\ persons'[u].id = persons[u].id
            /\ persons'[u] # persons[u] => reply'.actor = persons[u].id
       /\ (reply'.kind = "contact_patch" /\ reply'.actor # persons[reply'.target].id)
             => reply'.status = 403 /\ UNCHANGED persons]_vars

\* C23 witness: after the owner changed name, a contact field and the
\* visibility, an update by another identity was refused.
C23_ForeignUpdateRefused ==
    /\ reply.kind = "contact_patch" /\ reply.status = 403
    /\ reply.actor # reply.target
    /\ persons[Target].name # SeedPerson(Target).name
    /\ persons[Target].phone # SeedPerson(Target).phone
    /\ persons[Target].visibility # SeedPerson(Target).visibility

\* The tickets of event e, and those of them that are canceled.
TicketsOfEvent(e) == {t \in tickets : t.event = e}

CanceledOfEvent(e) == {t \in tickets : t.event = e /\ t.status = "canceled"}

\* C24: an event's registration count is the number of its tickets that are
\* not canceled, and the event is full exactly when its capacity is not 0
\* and that count has reached the capacity (so capacity 0 is never full);
\* the dashboard reports the same two values.
C24_CountAndFull ==
    /\ [](\A ev \in events :
            /\ registration_count(ev.id)
                  = Cardinality(TicketsOfEvent(ev.id)) - Cardinality(CanceledOfEvent(ev.id))
            /\ is_full(ev) <=> (ev.capacity # 0
                                 /\ registration_count(ev.id) >= ev.capacity)
            /\ ev.capacity = 0 => ~is_full(ev))
    /\ [][(reply' # reply /\ reply'.kind = "dashboard")
            => \A ev \in events :
                  ev.id = reply'.target
                    => /\ reply'.data.registered
                             = Cardinality(TicketsOfEvent(ev.id))
                                 - Cardinality(CanceledOfEvent(ev.id))
                       /\ reply'.data.is_full
                             <=> (ev.capacity # 0
                                  /\ reply'.data.registered >= ev.capacity)]_vars

\* C24 witness: the dashboard reported a full event that also holds a
\* canceled ticket.
C24_FullWithCanceledTicket ==
    /\ reply.kind = "dashboard" /\ reply.data.is_full
    /\ reply.data.registered = reply.data.capacity
    /\ CanceledOfEvent(reply.target) # {}

\* C25: two answered check-in calls with different outcomes carry different
\* response codes.
C25_OutcomesHaveDistinctCodes ==
    \A c, d \in Calls :
        (/\ req[c].kind = "checkin" /\ req[c].pc = "done"
         /\ req[d].kind = "checkin" /\ req[d].pc = "done"
         /\ req[c].outcome # req[d].outcome)
           => ResponseCode(req[c].outcome) # ResponseCode(req[d].outcome)

\* C26: every stored event starts no later than it ends.
C26_StartNotAfterEnd ==
    \A ev \in events : ev.start_time <= ev.end_time

\* A success ScanLog row for the pair of ticket t.
HasSuccessLog(t) ==
    \E l \in scanlogs :
        l.result = "success" /\ l.person = t.person /\ l.event = t.event

\* C27: a ticket becomes checked_in only in the check-in call's check_in
\* step, and every checked_in ticket has a success ScanLog row for its
\* (person, event), or the call that checked it in is about to write it.
C27_CheckedInOnlyByEngine ==
    /\ [][\A t \in tickets' :
             (t.status = "checked_in"
              /\ ~\E u \in tickets : u.id = t.id /\ u.status = "checked_in")
                => \E c \in Calls :
                      /\ req[c].kind = "checkin" /\ req[c].pc = "checkin"
                      /\ req'[c].pc = "log" /\ req[c].ticket.id = t.id]_vars
    /\ [](\A t \in tickets :
             t.status = "checked_in"
               => \/ HasSuccessLog(t)
                  \/ \E c \in Calls :
                        /\ req[c].pc = "log" /\ req[c].checked
                        /\ req[c].ticket.id = t.id)

\* The event id of request c names a stored event.
EventKnown(c) == \E ev \in events : ev.id = req[c].event_id

\* The event request c names, as stored.
EventOf(c) == CHOOSE ev \in events : ev.id = req[c].event_id

\* C28: an answered check-in call has the outcome and the audit entry of the
\* earliest failing step: an unknown person token gives PersonNotFound
\* (logged invalid with the token) whatever the event id and the caller
\* are; with a known person an unknown event id gives EventNotFound (logged
\* invalid with the person and no event) whoever the caller is; with both
\* known a caller who is not authorized gets Unauthorized, with no audit
\* entry, whatever the person's ticket is.
C28_EarliestFailureWins ==
    \A c \in Calls :
        (req[c].kind = "checkin" /\ req[c].pc = "done")
          => /\ req[c].token \notin Users
                  => /\ req[c].outcome = "PersonNotFound"
                     /\ \E l \in LogsOf(c) :
                           /\ LogsOf(c) = {l}
                           /\ l.result = "invalid" /\ l.person = "none"
                           /\ l.scanned_value = req[c].token
             /\ (req[c].token \in Users /\ ~EventKnown(c))
                  => /\ req[c].outcome = "EventNotFound"
                     /\ \E l \in LogsOf(c) :
                           /\ LogsOf(c) = {l}
                           /\ l.result = "invalid" /\ l.event = "none"
                           /\ l.person = req[c].token
                           /\ l.scanned_value = req[c].event_id
             /\ (/\ req[c].token \in Users /\ EventKnown(c)
                 /\ ~is_authorized(req[c].actor, EventOf(c)))
                  => /\ req[c].outcome = "Unauthorized"
                     /\ LogsOf(c) = {}

\* C28 witness: a call with unknown token, unknown event id and an
\* unauthorized caller was answered PersonNotFound, and a call with a known
\* token, unknown event id and an unauthorized caller was answered
\* EventNotFound.
C28_SeveralFailuresAtOnce ==
    \E c, d \in Calls :
        /\ req[c].pc = "done" /\ req[c].token \notin Users
        /\ req[c].event_id = UnknownEvent /\ req[c].actor = "alice"
        /\ req[c].outcome = "PersonNotFound"
        /\ req[d].pc = "done" /\ req[d].token \in Users
        /\ req[d].event_id = UnknownEvent /\ req[d].actor = "alice"
        /\ req[d].outcome = "EventNotFound"

\* User u is now admin, the creator or a staff member of a stored event
\* with id e.
NowAuthorizedFor(u, e) ==
    \E ev \in events :
        /\ ev.id = e
        /\ (Role(u) = "admin" \/ ev.created_by = u \/ <<e, u>> \in event_staff)

\* C29: a scanner page read returns an active event only if that event is
\* the session's selection, still exists and the user is now admin, its
\* creator or in its staff; a read that finds a selection the user is no
\* longer authorized for (or whose event is gone) returns no active event
\* and clears the selection of that user's session, and of no other.
C29_ActiveEventRevalidated ==
    [][(reply' # reply /\ reply'.kind = "scanner")
          => /\ UNCHANGED <<events, event_staff>>
             /\ reply'.data.selected = session[reply'.actor]
             /\ reply'.target # "none"
                  => /\ reply'.target = session[reply'.actor]
                     /\ NowAuthorizedFor(reply'.actor, reply'.target)
                     /\ UNCHANGED session
             /\ (/\ session[reply'.actor] # "none"
                 /\ ~NowAuthorizedFor(reply'.actor, session[reply'.actor]))
                  => /\ reply'.target = "none"
                     /\ session'[reply'.actor] = "none"
             /\ \A v \in Users \ {reply'.actor} : session'[v] = session[v]]_vars

\* C29 witness: staff had selected the event, was removed from its staff,
\* and the next read returned no active event and cleared the selection.
C29_SelectionClearedAfterRemoval ==
    /\ reply.kind = "scanner" /\ reply.actor = "staff"
    /\ reply.data.selected = TheEvent /\ reply.target = "none"
    /\ \E ev \in events : ev.id = TheEvent
    /\ <<TheEvent, "staff">> \notin event_staff
    /\ session["staff"] = "none"

\* C30: a registration call whose get_or_create finds a ticket of the pair
\* in a status other than canceled is answered 409 ALREADY_REGISTERED and
\* that step changes no ticket; a registration call whose capacity check
\* finds the event at capacity is answered 409 EVENT_FULL and that step
\* changes no ticket; and a call answered with either error has, from its
\* arrival to its response, created no ticket and reactivated none.
C30_ConflictLeavesLedger ==
    [][\A c \in Calls :
         (req[c].kind = "register" /\ req'[c] # req[c])
           => /\ (/\ req[c].pc = "r_goc"
                  /\ \E t \in TicketsOfPair(req[c]) : t.status # "canceled")
                   => /\ req'[c].pc = "done"
                      /\ req'[c].outcome = "AlreadyRegistered"
                      /\ RegisterStatus(req'[c].outcome) = 409
                      /\ UNCHANGED tickets
              /\ (req[c].pc = "r_full" /\ AtCapacity(req[c]))
                   => /\ req'[c].pc = "done"
                      /\ req'[c].outcome = "RegistrationFull"
                      /\ RegisterCode(req'[c].outcome) = "EVENT_FULL"
                      /\ RegisterStatus(req'[c].outcome) = 409
                      /\ UNCHANGED tickets
              /\ req'[c].outcome \in {"AlreadyRegistered", "RegistrationFull"}
                   => /\ req[c].pc \in {"r_full", "r_goc"}
                      /\ ~req'[c].created
                      /\ UNCHANGED tickets]_vars

\* C30 witness: a registration for a pair whose ticket is checked in was
\* answered ALREADY_REGISTERED and the ticket is still checked in.
C30_SecondRegistrationRefused ==
    \E c \in Calls :
        /\ req[c].kind = "register" /\ req[c].pc = "done"
        /\ req[c].outcome = "AlreadyRegistered"
        /\ \E t \in TicketsOfPair(req[c]) :
              TicketsOfPair(req[c]) = {t} /\ t.status = "checked_in"

\* C31: with requests served one after the other, an event of capacity
\* N > 0 never holds more than N tickets that are not canceled.
C31_SequentialNeverOverbooked ==
    \A ev \in events :
        ev.capacity > 0
          => Cardinality(TicketsOfEvent(ev.id) \ CanceledOfEvent(ev.id)) <= ev.capacity

\* C32: each step of a check-in call is decided by facts that do not
\* involve the time: whether the event id names a stored event, whether
\* the caller is admin, creator or staff, the pair's ticket and its status,
\* the walk-in flag and the capacity.  The same call therefore has the same
\* outcome and effect inside and outside [start_time, end_time]; and no
\* ScanLog row has result event_inactive or wrong_event.
C32_TimeWindowIgnored ==
    /\ [](\A l \in scanlogs : l.result \notin {"event_inactive", "wrong_event"})
    /\ [][\A c \in Calls :
            (req[c].kind = "checkin" /\ req'[c] # req[c])
              => /\ req[c].pc = "event"
                      => IF EventKnown(c)
                         THEN req'[c].pc = "auth" /\ req'[c].ev = EventOf(c)
                         ELSE req'[c].pc = "log" /\ req'[c].outcome = "EventNotFound"
                 /\ req[c].pc = "auth"
                      => IF NowAuthorizedFor(req[c].actor, req[c].ev.id)
                         THEN req'[c].pc = "ticket"
                         ELSE req'[c].pc = "done" /\ req'[c].outcome = "Unauthorized"
                 /\ req[c].pc = "ticket"
                      => IF TicketsOfPair(req[c]) = {}
                         THEN IF req[c].ev.allow_walkins
                              THEN req'[c].pc = "full"
                              ELSE req'[c].outcome = "NotRegistered"
                         ELSE \A t \in TicketsOfPair(req[c]) :
                                 CASE t.status = "checked_in"
                                        -> req'[c].outcome = "AlreadyCheckedIn"
                                   [] t.status = "canceled"
                                        -> req'[c].outcome = "TicketCanceled"
                                   [] OTHER -> req'[c].pc = "checkin"
                 /\ req[c].pc = "full"
                      => IF AtCapacity(req[c])
                         THEN req'[c].outcome = "EventFull"
                         ELSE req'[c].pc = "create"
                 /\ req[c].pc = "create"
                      => /\ req'[c].pc = "checkin"
                         /\ Cardinality(tickets') = Cardinality(tickets) + 1
                 /\ req[c].pc = "checkin"
                      => /\ req'[c].outcome = "Success"
                         /\ \E t \in tickets' :
                               /\ t.id = req[c].ticket.id
                               /\ t.status = "checked_in" /\ t.checked_in_at = now
                 /\ req[c].pc = "log"
                      => /\ req'[c].pc = "done"
                         /\ req'[c].outcome = req[c].outcome
                         /\ UNCHANGED tickets]_vars

\* C32 witness: one call checked a person in at a time inside the window of
\* the event it had loaded, another at a time outside its event's window.
C32_CheckedInOutsideWindow ==
    \E c, d \in Calls :
        /\ req[c].pc = "done" /\ req[c].outcome = "Success"
        /\ req[d].pc = "done" /\ req[d].outcome = "Success"
        /\ req[c].ev.start_time <= req[c].ticket.checked_in_at
        /\ req[c].ticket.checked_in_at <= req[c].ev.end_time
        /\ \/ req[d].ticket.checked_in_at < req[d].ev.start_time
           \/ req[d].ticket.checked_in_at > req[d].ev.end_time

\* C33: a checked_in ticket has checked_in_at set (0 stands for null); a
\* ticket with checked_in_at set was checked in by some check-in call; a
\* step that moves a ticket to checked_in or changes its checked_in_at
\* does both, stamping the current time; and a new ticket has
\* checked_in_at null.
C33_StatusAndTimestampTogether ==
    /\ [](\A t \in tickets :
            /\ t.status = "checked_in" => t.checked_in_at # 0
            /\ t.checked_in_at # 0
                 => \E c \in Calls : req[c].checked /\ req[c].ticket.id = t.id)
    /\ [][\A t \in tickets' :
            IF \E u \in tickets : u.id = t.id
            THEN \A u \in tickets :
                    (/\ u.id = t.id
                     /\ \/ u.checked_in_at # t.checked_in_at
                        \/ (u.status # "checked_in" /\ t.status = "checked_in"))
                       => t.status = "checked_in" /\ t.checked_in_at = now /\ now # 0
            ELSE t.checked_in_at = 0 /\ t.status = "issued"]_vars

\* C33 witness: a checked_in ticket with its timestamp, next to a ticket
\* issued by a registration and never checked in, with none.
C33_CheckedInNextToIssued ==
    \E t, u \in tickets :
        /\ t.status = "checked_in" /\ t.checked_in_at # 0
        /\ u.status = "issued" /\ u.issued_at # 0 /\ u.checked_in_at = 0

\* C34: the reactivation step of a registration leaves every ticket's id,
\* person, event, issued_at and checked_in_at as they were, changes no
\* ticket but the one it reactivates, adds and removes none, and leaves
\* that ticket issued.
C34_ReactivationChangesStatusOnly ==
    [][\A c \in Calls :
         (req[c].kind = "register" /\ req[c].pc = "r_save" /\ req'[c] # req[c])
           => /\ Cardinality(tickets') = Cardinality(tickets)
              /\ \A u \in tickets :
                    \E t \in tickets' :
                        /\ t.id = u.id /\ t.person = u.person /\ t.event = u.event
                        /\ t.issued_at = u.issued_at
                        /\ t.checked_in_at = u.checked_in_at
                        /\ IF u.id = req[c].ticket.id
                           THEN t.status = "issued"
                           ELSE t.status = u.status]_vars

\* C34 witness: a ticket that was checked in and then canceled has been
\* reactivated: it is issued and still carries the time of its check-in.
C34_ReissuedKeepsCheckInTime ==
    \E c \in Calls :
        /\ req[c].kind = "register" /\ req[c].pc = "done"
        /\ req[c].outcome = "Reactivated"
        /\ \E t \in tickets :
              /\ t.id = req[c].ticket.id
              /\ t.status = "issued" /\ t.checked_in_at # 0

\* The request that wrote ScanLog row l.
WriterOf(l) == req[l.id[1]]

\* C35: every ScanLog row, when it is written, names the caller of the
\* request that writes it; a row of result success, duplicate or
\* not_registered names a stored person and a stored event; a row with no
\* person or no event has result invalid; the person is missing exactly
\* when the token is unknown, the event exactly when the token or the
\* event id is unknown.
C35_ScanLogIdentifies ==
    [][\A l \in scanlogs' \ scanlogs :
         /\ l.actor # "none" /\ l.actor = WriterOf(l).actor
         /\ l.result \in {"success", "duplicate", "not_registered"}
              => /\ l.person \in Users
                 /\ \E ev \in events : ev.id = l.event
         /\ (l.person = "none" \/ l.event = "none") => l.result = "invalid"
         /\ l.person = "none" <=> WriterOf(l).token \notin Users
         /\ l.event = "none"
              <=> \/ WriterOf(l).token \notin Users
                  \/ ~\E ev \in events : ev.id = WriterOf(l).event_id]_vars

\* C35 witness: the log holds a row written for an unknown event id (person
\* resolved, no event) next to a success row, both naming their actor.
C35_PartialAndFullRows ==
    \E l, m \in scanlogs :
        /\ l.result = "invalid" /\ l.person # "none" /\ l.event = "none"
        /\ l.actor # "none"
        /\ m.result = "success" /\ m.person # "none" /\ m.event # "none"
        /\ m.actor # "none"

\* C36: a select_event request stores an event in the user's session only
\* if the user has a staff-or-above role and is now admin, the event's
\* creator or in its staff, and then it stores the event asked for; a
\* request for an event the user is not authorized for (or that is not
\* stored) leaves every session as it was; a request with an empty event id
\* leaves the user with no selection; and no request touches another
\* user's session.
C36_SelectionOnlyWhenAuthorized ==
    [][(reply' # reply /\ reply'.kind = "select")
          => /\ UNCHANGED <<events, event_staff>>
             /\ \A v \in Users \ {reply'.actor} : session'[v] = session[v]
             /\ (/\ session'[reply'.actor] # session[reply'.actor]
                 /\ session'[reply'.actor] # "none")
                  => /\ session'[reply'.actor] = reply'.target
                     /\ Role(reply'.actor) \in {"staff", "organizer", "admin"}
                     /\ NowAuthorizedFor(reply'.actor, reply'.target)
             /\ (/\ reply'.target # ""
                 /\ ~NowAuthorizedFor(reply'.actor, reply'.target))
                  => UNCHANGED session
             /\ reply'.target = "" => session'[reply'.actor] = "none"]_vars

\* C36 witness: staff, holding a selection, was removed from the event's
\* staff and asked to select the event again: the request was refused and
\* the session is as it was.
C36_RefusedSelectionKeepsSession ==
    /\ reply.kind = "select" /\ reply.actor = "staff"
    /\ reply.target = TheEvent /\ reply.status = 200
    /\ <<TheEvent, "staff">> \notin event_staff
    /\ reply.data.selected = TheEvent
    /\ session["staff"] = reply.data.selected

====
